---- MODULE Spec2Model ----
(***************************************************************************)
(* Model of docs/multipass-setup.py: a script that binds a fixed text to   *)
(* guide_content, writes it to multipass_setup_guide.md with               *)
(* open(..., 'w') / f.write inside a with block, and then prints nine      *)
(* confirmation messages.                                                  *)
(*                                                                         *)
(* A run is one process executing the script.  The file system, the        *)
(* platform (text encoding, line separator, directory and file             *)
(* permissions) and the invocation (argv, environment) are the run's       *)
(* surroundings.  Text is a sequence of character classes, file content a  *)
(* sequence of bytes; the text layer of open(..., 'w') encodes the text    *)
(* and the raw layer stores the bytes with one or more write calls at the  *)
(* descriptor's offset.                                                    *)
(***************************************************************************)
EXTENDS Integers, Sequences, FiniteSets

\* ------------------------------------------------------------------ bounds
GuideLen == 3
MaxRuns == 3
PriorLen == 2

\* --------------------------------------------------------------- constants
Target == "multipass_setup_guide.md"
Other == "notes.md"
Paths == {Target, Other}
Procs == {1, 2}

\* byte values
LFByte == 10
CRByte == 13
HashByte == 35
ArrowBytes == <<226, 134, 146>>

\* The character classes that occur in guide_content: ASCII characters,
\* line feeds, and the non-ASCII arrows of lines 152 and 161.
GuidePattern == <<"arrow", "LF", "hash">>

\* guide_content, abstracted to GuideLen characters that cycle through the
\* classes of the real text.
GuideText == [i \in 1..GuideLen |-> GuidePattern[((i - 1) % 3) + 1]]

\* What each of the nine print calls appends to standard output, as lines.
\* The second call prints "\nFile contains:", that is a blank line and the
\* header.  The first line starts with a check-mark emoji, left out here.
PrintLinesNoBlank(i) ==
  CASE i = 1 -> <<"Created comprehensive Multipass setup guide: multipass_setup_guide.md">>
    [] i = 2 -> <<"File contains:">>
    [] i = 3 -> <<"- Complete installation instructions">>
    [] i = 4 -> <<"- VM configuration with Podman">>
    [] i = 5 -> <<"- VSCode remote development setup">>
    [] i = 6 -> <<"- File mounting (bidirectional)">>
    [] i = 7 -> <<"- Example workflows and scripts">>
    [] i = 8 -> <<"- Troubleshooting section">>
    [] i = 9 -> <<"- Quick reference commands">>

PrintLines(i) ==
  CASE i = 1 -> <<"Created comprehensive Multipass setup guide: multipass_setup_guide.md">>
    [] i = 2 -> <<"", "File contains:">>
    [] i = 3 -> <<"- Complete installation instructions">>
    [] i = 4 -> <<"- VM configuration with Podman">>
    [] i = 5 -> <<"- VSCode remote development setup">>
    [] i = 6 -> <<"- File mounting (bidirectional)">>
    [] i = 7 -> <<"- Example workflows and scripts">>
    [] i = 8 -> <<"- Troubleshooting section">>
    [] i = 9 -> <<"- Quick reference commands">>

NumPrints == 9

VARIABLES
  fs,             \* path -> [exists, data]: the files of the working directory
  dirState,       \* "ok", "readonly" or "missing": the working directory
  fileWritable,   \* permission bits of the target file, when it exists
  encoding,       \* the platform's preferred text encoding
  linesep,        \* the platform's line separator
  argv,           \* command line arguments of the invocation
  environ,        \* environment variable naming a path, or "" when unset
  pc,             \* per process: the statement it is at
  guide_content,  \* per process: the module global guide_content
  fd,             \* per process: "none", "open" or "closed"
  pos,            \* per process: offset of the descriptor
  pending,        \* per process: encoded bytes not yet stored
  stdout,         \* per process: lines printed so far
  nprint,         \* per process: print calls completed
  err,            \* per process: the exception that ended the run
  failedAt,       \* per process: the statement that raised it
  succeeded,      \* per process: which of open, write, close have succeeded
  nOpen,          \* per process: open calls made
  nWrite,         \* per process: f.write calls made
  before,         \* per process: the target file as the run found it
  started,        \* runs started so far
  completed,      \* runs that closed the file successfully
  firstFile       \* the target file as the first such run left it

vars == <<fs, dirState, fileWritable, encoding, linesep, argv, environ, pc,
          guide_content, fd, pos, pending, stdout, nprint, err, failedAt,
          succeeded, nOpen, nWrite, before, started, completed, firstFile>>

envVars == <<dirState, encoding, linesep, argv, environ>>

NoFile == [exists |-> FALSE, data |-> <<>>]
File(d) == [exists |-> TRUE, data |-> d]
\* n bytes "x": content that some other program left
Junk(n) == [i \in 1..n |-> 120]

\* ---------------------------------------------------------------- encoding
\* The text layer: encode one character with the preferred encoding,
\* translating a line feed to the platform's line separator.
CanEncodeChar(c, enc) == c # "arrow" \/ enc = "utf-8"

EncodeChar(c, sep) ==
  CASE c = "LF" -> IF sep = "crlf" THEN <<CRByte, LFByte>> ELSE <<LFByte>>
    [] c = "hash" -> <<HashByte>>
    [] c = "arrow" -> ArrowBytes

CanEncode(text, enc) == \A i \in 1..Len(text) : CanEncodeChar(text[i], enc)

RECURSIVE EncodeText(_, _)
EncodeText(text, sep) ==
  IF text = <<>> THEN <<>>
  ELSE EncodeChar(Head(text), sep) \o EncodeText(Tail(text), sep)

\* Reading a file in text mode: decode, with universal newlines.
RECURSIVE DecodeBytes(_)
DecodeBytes(b) ==
  IF b = <<>> THEN <<>>
  ELSE IF Len(b) >= 3 /\ SubSeq(b, 1, 3) = ArrowBytes
    THEN <<"arrow">> \o DecodeBytes(SubSeq(b, 4, Len(b)))
  ELSE IF Len(b) >= 2 /\ SubSeq(b, 1, 2) = <<CRByte, LFByte>>
    THEN <<"LF">> \o DecodeBytes(SubSeq(b, 3, Len(b)))
  ELSE IF b[1] \in {LFByte, CRByte} THEN <<"LF">> \o DecodeBytes(Tail(b))
  ELSE IF b[1] = HashByte THEN <<"hash">> \o DecodeBytes(Tail(b))
  ELSE <<"invalid">> \o DecodeBytes(Tail(b))

\* ------------------------------------------------------------ file system
\* Mode 'w' without a leading path: the file of this name in the working
\* directory, whatever the invocation.
OutputPathFromInvocation ==
  IF argv # <<>> THEN argv[1] ELSE IF environ # "" THEN environ ELSE Target

OutputPath == Target

\* The mode argument of open.
OpenModeAppend == "a"

OpenModeUpdate == "r+"

OpenMode == "w"

\* Mode 'w' truncates an existing file; 'a' and 'r+' keep its content.
Truncate(data) == IF OpenMode = "w" THEN <<>> ELSE data

\* Modes 'w' and 'r+' write at the descriptor's offset; 'a' writes at the
\* end of the file.
WritePos(offset, data) == IF OpenMode = "a" THEN Len(data) ELSE offset

\* Store bytes at an offset; a gap past the end of the file reads as zeros.
WriteAt(data, off, bytes) ==
  LET end == off + Len(bytes)
      n == IF Len(data) > end THEN Len(data) ELSE end
  IN [i \in 1..n |->
        IF i > off /\ i <= end THEN bytes[i - off]
        ELSE IF i <= Len(data) THEN data[i] ELSE 0]

\* open(path, 'w') succeeds when the directory exists and either the file
\* exists and is writable, or it is absent and the directory lets it be
\* created.
CanOpenAnywhere == TRUE

CanOpen ==
  /\ dirState # "missing"
  /\ IF fs[OutputPath].exists THEN fileWritable ELSE dirState = "ok"

\* --------------------------------------------------------- control flow
\* There is no try/except: an exception ends the run.
SwallowFailure == "print"

AfterFailurePc == "failed"

\* The with block closes the file once f.write has returned, and the print
\* calls follow the with block.
SkipClose(rest) == IF rest = <<>> THEN "print" ELSE "flush"

AfterStorePc(rest) == IF rest = <<>> THEN "close" ELSE "flush"

\* Nothing restores or removes the file when storing the bytes fails.
RestorePrior(current, prior) == prior

AfterWriteFailure(current, prior) == current

\* ------------------------------------------------------------------- init
LongJunk == Junk(3 * GuideLen + PriorLen)

PriorFiles == {NoFile, File(<<>>), File(Junk(1)), File(LongJunk)}

Invocations ==
  { <<(<<>>), "">>, <<(<<Other>>), "">>, <<(<<>>), Other>> }

InitProc(active, runs) ==
  /\ pc = [p \in Procs |-> IF p \in active THEN "define" ELSE "off"]
  /\ guide_content = [p \in Procs |-> <<>>]
  /\ fd = [p \in Procs |-> "none"]
  /\ pos = [p \in Procs |-> 0]
  /\ pending = [p \in Procs |-> <<>>]
  /\ stdout = [p \in Procs |-> <<>>]
  /\ nprint = [p \in Procs |-> 0]
  /\ err = [p \in Procs |-> "none"]
  /\ failedAt = [p \in Procs |-> "none"]
  /\ succeeded = [p \in Procs |-> {}]
  /\ nOpen = [p \in Procs |-> 0]
  /\ nWrite = [p \in Procs |-> 0]
  /\ before = [p \in Procs |-> NoFile]
  /\ started = runs
  /\ completed = 0
  /\ firstFile = NoFile

InitEnv ==
  /\ dirState \in {"ok", "readonly", "missing"}
  /\ \E f \in PriorFiles :
       /\ dirState = "missing" => ~f.exists
       /\ fs = [q \in Paths |-> IF q = Target THEN f
                                ELSE IF dirState = "missing" THEN NoFile
                                ELSE File(Junk(1))]
  /\ fileWritable \in BOOLEAN
  /\ ~fs[Target].exists => fileWritable
  /\ encoding \in {"utf-8", "ascii"}
  /\ linesep \in {"lf", "crlf"}
  /\ \E i \in Invocations : argv = i[1] /\ environ = i[2]

\* One operator runs the script, again and again.
Init == InitEnv /\ InitProc({1}, 1)

\* Two invocations of the script, without arguments, run at once in the
\* same existing directory.
InitConc ==
  /\ InitEnv
  /\ dirState = "ok"
  /\ fs[Target] \in {NoFile, File(LongJunk)}
  /\ argv = <<>> /\ environ = ""
  /\ InitProc(Procs, 2)

\* ---------------------------------------------------------------- actions
\* line 2: guide_content = """..."""
Define(p) ==
  /\ pc[p] = "define"
  /\ guide_content' = [guide_content EXCEPT ![p] = GuideText]
  /\ before' = [before EXCEPT ![p] = fs[Target]]
  /\ pc' = [pc EXCEPT ![p] = "open"]
  /\ UNCHANGED <<fs, fileWritable, envVars, fd, pos, pending, stdout, nprint,
                 err, failedAt, succeeded, nOpen, nWrite, started, completed,
                 firstFile>>

\* line 475: open('multipass_setup_guide.md', 'w') succeeds
OpenOk(p) ==
  /\ pc[p] = "open"
  /\ CanOpen
  /\ fs' = [fs EXCEPT ![OutputPath] = File(Truncate(fs[OutputPath].data))]
  /\ fd' = [fd EXCEPT ![p] = "open"]
  /\ pos' = [pos EXCEPT ![p] = 0]
  /\ nOpen' = [nOpen EXCEPT ![p] = @ + 1]
  /\ succeeded' = [succeeded EXCEPT ![p] = @ \cup {"open"}]
  /\ pc' = [pc EXCEPT ![p] = "write"]
  /\ UNCHANGED <<fileWritable, envVars, guide_content, pending, stdout, nprint,
                 err, failedAt, nWrite, before, started, completed, firstFile>>

\* line 475: open raises OSError
OpenFail(p) ==
  /\ pc[p] = "open"
  /\ ~CanOpen
  /\ nOpen' = [nOpen EXCEPT ![p] = @ + 1]
  /\ err' = [err EXCEPT ![p] = "OSError"]
  /\ failedAt' = [failedAt EXCEPT ![p] = "open"]
  /\ pc' = [pc EXCEPT ![p] = AfterFailurePc]
  /\ UNCHANGED <<fs, fileWritable, envVars, guide_content, fd, pos, pending,
                 stdout, nprint, succeeded, nWrite, before, started, completed,
                 firstFile>>

\* line 476: f.write(guide_content) encodes the text
WriteEncode(p) ==
  /\ pc[p] = "write"
  /\ CanEncode(guide_content[p], encoding)
  /\ nWrite' = [nWrite EXCEPT ![p] = @ + 1]
  /\ pending' = [pending EXCEPT ![p] = EncodeText(guide_content[p], linesep)]
  /\ pc' = [pc EXCEPT ![p] = "flush"]
  /\ UNCHANGED <<fs, fileWritable, envVars, guide_content, fd, pos, stdout,
                 nprint, err, failedAt, succeeded, nOpen, before, started,
                 completed, firstFile>>

\* line 476: the encoding cannot represent the text; leaving the with block
\* closes the file and the exception ends the run
WriteEncodeFail(p) ==
  /\ pc[p] = "write"
  /\ ~CanEncode(guide_content[p], encoding)
  /\ nWrite' = [nWrite EXCEPT ![p] = @ + 1]
  /\ fd' = [fd EXCEPT ![p] = "closed"]
  /\ err' = [err EXCEPT ![p] = "UnicodeEncodeError"]
  /\ failedAt' = [failedAt EXCEPT ![p] = "write"]
  /\ pc' = [pc EXCEPT ![p] = AfterFailurePc]
  /\ UNCHANGED <<fs, fileWritable, envVars, guide_content, pos, pending,
                 stdout, nprint, succeeded, nOpen, before, started, completed,
                 firstFile>>

\* lines 475-476: the raw layer stores the next k bytes (a write call may
\* store fewer bytes than it was given)
Store(p) ==
  /\ pc[p] = "flush"
  /\ pending[p] # <<>>
  /\ \E k \in 1..Len(pending[p]) :
       LET at == WritePos(pos[p], fs[OutputPath].data)
           rest == SubSeq(pending[p], k + 1, Len(pending[p]))
       IN /\ fs' = [fs EXCEPT ![OutputPath] =
                      File(WriteAt(@.data, at, SubSeq(pending[p], 1, k)))]
          /\ pos' = [pos EXCEPT ![p] = at + k]
          /\ pending' = [pending EXCEPT ![p] = rest]
          /\ succeeded' = [succeeded EXCEPT ![p] =
                             IF rest = <<>> THEN @ \cup {"write"} ELSE @]
          /\ pc' = [pc EXCEPT ![p] = AfterStorePc(rest)]
  /\ UNCHANGED <<fileWritable, envVars, guide_content, fd, stdout, nprint, err,
                 failedAt, nOpen, nWrite, before, started, completed,
                 firstFile>>

\* lines 475-476: storing bytes raises OSError (disk full, I/O error);
\* leaving the with block closes the file and the exception ends the run
StoreFail(p) ==
  /\ pc[p] = "flush"
  /\ pending[p] # <<>>
  /\ fs' = [fs EXCEPT ![OutputPath] =
              File(AfterWriteFailure(@.data, before[p].data))]
  /\ fd' = [fd EXCEPT ![p] = "closed"]
  /\ err' = [err EXCEPT ![p] = "OSError"]
  /\ failedAt' = [failedAt EXCEPT ![p] = "write"]
  /\ pc' = [pc EXCEPT ![p] = AfterFailurePc]
  /\ UNCHANGED <<fileWritable, envVars, guide_content, pos, pending, stdout,
                 nprint, succeeded, nOpen, nWrite, before, started, completed,
                 firstFile>>

\* end of the with block: the file is closed
CloseOk(p) ==
  /\ pc[p] = "close"
  /\ fd' = [fd EXCEPT ![p] = "closed"]
  /\ succeeded' = [succeeded EXCEPT ![p] = @ \cup {"close"}]
  /\ completed' = completed + 1
  /\ firstFile' = IF completed = 0 THEN fs[Target] ELSE firstFile
  /\ pc' = [pc EXCEPT ![p] = "print"]
  /\ UNCHANGED <<fs, fileWritable, envVars, guide_content, pos, pending,
                 stdout, nprint, err, failedAt, nOpen, nWrite, before,
                 started>>

\* end of the with block: close raises OSError
CloseFail(p) ==
  /\ pc[p] = "close"
  /\ fd' = [fd EXCEPT ![p] = "closed"]
  /\ err' = [err EXCEPT ![p] = "OSError"]
  /\ failedAt' = [failedAt EXCEPT ![p] = "close"]
  /\ pc' = [pc EXCEPT ![p] = AfterFailurePc]
  /\ UNCHANGED <<fs, fileWritable, envVars, guide_content, pos, pending,
                 stdout, nprint, succeeded, nOpen, nWrite, before, started,
                 completed, firstFile>>

\* lines 478-486: the next print call
PrintCall(p) ==
  /\ pc[p] = "print"
  /\ nprint[p] < NumPrints
  /\ stdout' = [stdout EXCEPT ![p] = @ \o PrintLines(nprint[p] + 1)]
  /\ nprint' = [nprint EXCEPT ![p] = @ + 1]
  /\ pc' = [pc EXCEPT ![p] = IF nprint[p] + 1 = NumPrints THEN "done" ELSE "print"]
  /\ UNCHANGED <<fs, fileWritable, envVars, guide_content, fd, pos, pending,
                 err, failedAt, succeeded, nOpen, nWrite, before, started,
                 completed, firstFile>>

\* line 478: the first print call raises (standard output is closed, or its
\* encoding cannot represent the check mark)
PrintCallFail(p) ==
  /\ pc[p] = "print"
  /\ nprint[p] = 0
  /\ err' = [err EXCEPT ![p] = "OSError"]
  /\ failedAt' = [failedAt EXCEPT ![p] = "print"]
  /\ pc' = [pc EXCEPT ![p] = "failed"]
  /\ UNCHANGED <<fs, fileWritable, envVars, guide_content, fd, pos, pending,
                 stdout, nprint, succeeded, nOpen, nWrite, before, started,
                 completed, firstFile>>

\* The operator invokes the script once more: a new process.
Rerun(p) ==
  /\ pc[p] \in {"done", "failed"}
  /\ started < MaxRuns
  /\ started' = started + 1
  /\ pc' = [pc EXCEPT ![p] = "define"]
  /\ guide_content' = [guide_content EXCEPT ![p] = <<>>]
  /\ fd' = [fd EXCEPT ![p] = "none"]
  /\ pos' = [pos EXCEPT ![p] = 0]
  /\ pending' = [pending EXCEPT ![p] = <<>>]
  /\ stdout' = [stdout EXCEPT ![p] = <<>>]
  /\ nprint' = [nprint EXCEPT ![p] = 0]
  /\ err' = [err EXCEPT ![p] = "none"]
  /\ failedAt' = [failedAt EXCEPT ![p] = "none"]
  /\ succeeded' = [succeeded EXCEPT ![p] = {}]
  /\ nOpen' = [nOpen EXCEPT ![p] = 0]
  /\ nWrite' = [nWrite EXCEPT ![p] = 0]
  /\ before' = [before EXCEPT ![p] = NoFile]
  /\ UNCHANGED <<fs, fileWritable, envVars, completed, firstFile>>

Step(p) ==
  \/ Define(p)
  \/ OpenOk(p)
  \/ OpenFail(p)
  \/ WriteEncode(p)
  \/ WriteEncodeFail(p)
  \/ Store(p)
  \/ StoreFail(p)
  \/ CloseOk(p)
  \/ CloseFail(p)
  \/ PrintCall(p)
  \/ PrintCallFail(p)

Next == \E p \in Procs : Step(p) \/ Rerun(p)

NextConc == \E p \in Procs : Step(p)

Spec == Init /\ [][Next]_vars

SpecConc == InitConc /\ [][NextConc]_vars

\* ----------------------------------------------------------- properties
\* The bytes that a successful write of the guide stores on this platform.
EncodedGuide == EncodeText(GuideText, linesep)

IsClosedOk(p) == "close" \in succeeded[p]

FailedIn(p, stmt) == pc[p] = "failed" /\ failedAt[p] = stmt

\* C1: once a run has opened, written and closed the file, whatever the path
\* held before, the file exists, holds exactly the encoded guide, and reading
\* it back in text mode yields guide_content.
C1_RoundTrip ==
  \A p \in Procs :
    IsClosedOk(p) =>
      /\ fs[Target].exists
      /\ fs[Target].data = EncodeText(guide_content[p], linesep)
      /\ DecodeBytes(fs[Target].data) = guide_content[p]

C1_Witness ==
  \E p \in Procs :
    /\ IsClosedOk(p)
    /\ before[p] = File(LongJunk)
    /\ linesep = "crlf"
    /\ DecodeBytes(fs[Target].data) = GuideText

\* C2: after any number of successful sequential runs the file is what the
\* first successful run left: the guide once, never appended or duplicated.
C2_Idempotent ==
  \A p \in Procs :
    (completed >= 1 /\ IsClosedOk(p)) => fs[Target] = firstFile

C2_Witness ==
  \E p \in Procs :
    /\ completed >= 2
    /\ IsClosedOk(p)
    /\ fs[Target] = File(EncodedGuide)
    /\ before[p] = File(EncodedGuide)

\* C3: whenever a confirmation line has been printed, the file has been
\* fully written and closed, and (no other writer) holds the guide.
C3_ReportAfterClose ==
  \A p \in Procs :
    stdout[p] # <<>> =>
      /\ fd[p] = "closed"
      /\ pending[p] = <<>>
      /\ {"write", "close"} \subseteq succeeded[p]
      /\ fs[Target] = File(EncodedGuide)

C3_Witness ==
  \E p \in Procs : pc[p] = "print" /\ Len(stdout[p]) = 1 /\ fd[p] = "closed"

DirUnusable == dirState \in {"missing", "readonly"}

PastOpen(p) == pc[p] \notin {"off", "define", "open"}

OpenRefused(p) ==
  /\ FailedIn(p, "open")
  /\ err[p] = "OSError"
  /\ fs[Target] = before[p]

\* C4 as stated: when the directory is missing or not writable, the run
\* fails with an I/O error and the path is as it was before the run.
C4_Original == \A p \in Procs : (DirUnusable /\ PastOpen(p)) => OpenRefused(p)

\* C4 amended: when the directory is missing, or is not writable and the
\* path does not already hold a writable file, the run fails with an I/O
\* error raised by open and the path is as it was before the run.
C4_OpenRefused ==
  \A p \in Procs :
    ( /\ PastOpen(p)
      /\ \/ dirState = "missing"
         \/ dirState = "readonly" /\ ~(before[p].exists /\ fileWritable) )
    => OpenRefused(p)

C4_Witness ==
  \E p \in Procs :
    /\ FailedIn(p, "open")
    /\ dirState = "readonly"
    /\ ~before[p].exists
    /\ ~fs[Target].exists

\* C5: a failure of open, write or close ends the run in the failed state
\* with nothing printed; open and f.write are called at most once per run;
\* anything is printed only after open, write and close all succeeded.
C5_FatalNoRetry ==
  \A p \in Procs :
    /\ nOpen[p] <= 1
    /\ nWrite[p] <= 1
    /\ failedAt[p] \in {"open", "write", "close"} =>
         /\ pc[p] = "failed"
         /\ err[p] # "none"
         /\ stdout[p] = <<>>
    /\ stdout[p] # <<>> => succeeded[p] = {"open", "write", "close"}

C5_Witness ==
  \E p \in Procs :
    /\ FailedIn(p, "write")
    /\ err[p] = "OSError"
    /\ pos[p] > 0
    /\ nOpen[p] = 1
    /\ nWrite[p] = 1

\* C6: once two concurrent runs have both opened, written and closed the
\* file, under every interleaving of their steps, the file holds the guide
\* exactly once.
C6_LastWriterWins ==
  (\A p \in Procs : IsClosedOk(p)) => fs[Target] = File(EncodedGuide)

\* C6 witness: both runs closed, and when the first of them closed the
\* other had truncated the file under it.
C6_Witness ==
  /\ \A p \in Procs : IsClosedOk(p)
  /\ completed = 2
  /\ firstFile # File(EncodedGuide)
  /\ fs[Target] = File(EncodedGuide)

\* C7: the standard output of a successful run is the fixed sequence: the
\* success marker, a blank line, the header and the seven section bullets
\* (nine non-blank lines), whatever the surroundings.
ExpectedStdout ==
  << "Created comprehensive Multipass setup guide: multipass_setup_guide.md",
     "",
     "File contains:",
     "- Complete installation instructions",
     "- VM configuration with Podman",
     "- VSCode remote development setup",
     "- File mounting (bidirectional)",
     "- Example workflows and scripts",
     "- Troubleshooting section",
     "- Quick reference commands" >>

NonBlank(line) == line # ""

C7_FixedOutput ==
  \A p \in Procs :
    /\ pc[p] = "done" =>
         /\ stdout[p] = ExpectedStdout
         /\ Len(SelectSeq(stdout[p], NonBlank)) = 9
    /\ pc[p] # "off" =>
         /\ Len(stdout[p]) <= Len(ExpectedStdout)
         /\ stdout[p] = SubSeq(ExpectedStdout, 1, Len(stdout[p]))

C7_Witness ==
  \E p \in Procs :
    /\ pc[p] = "done"
    /\ dirState = "readonly"
    /\ linesep = "crlf"
    /\ argv # <<>>
    /\ before[p] = File(LongJunk)

\* C8: while a run is between opening and closing the file, the path holds
\* a strict prefix of the encoded guide (empty right after the open): a
\* reader then sees neither the prior content nor the full guide.
C8_PartialVisible ==
  \A p \in Procs :
    pc[p] \in {"write", "flush"} =>
      /\ fs[Target].exists
      /\ pos[p] < Len(EncodedGuide)
      /\ fs[Target].data = SubSeq(EncodedGuide, 1, pos[p])

C8_Witness ==
  \E p \in Procs :
    /\ pc[p] = "flush"
    /\ pos[p] > 0
    /\ before[p].exists
    /\ fs[Target] # before[p]
    /\ fs[Target] # File(EncodedGuide)
    /\ fs[Target].exists

\* C9: when storing the bytes fails after a successful open, the run ends
\* failed with the file empty or holding a strict prefix of the guide: the
\* prior content is gone and nothing removes or restores the file.
C9_NoRollback ==
  \A p \in Procs :
    FailedIn(p, "write") =>
      /\ "open" \in succeeded[p]
      /\ fd[p] = "closed"
      /\ fs[Target].exists
      /\ pos[p] < Len(EncodedGuide)
      /\ fs[Target].data = SubSeq(EncodedGuide, 1, pos[p])
      /\ nOpen[p] = 1

C9_Witness ==
  \E p \in Procs :
    /\ FailedIn(p, "write")
    /\ err[p] = "OSError"
    /\ before[p] = File(LongJunk)
    /\ fs[Target] # before[p]

\* C10: no step of a run changes any file but multipass_setup_guide.md, the
\* invocation's arguments and environment notwithstanding, and once bound,
\* guide_content keeps its value for the rest of the run.
C10_Frame ==
  [][ /\ \A q \in Paths \ {Target} : fs'[q] = fs[q]
      /\ \A p \in Procs :
           (pc[p] \notin {"off", "define"} /\ pc'[p] # "define") =>
             (guide_content'[p] = guide_content[p] /\ guide_content[p] = GuideText)
    ]_vars

C10_Witness ==
  \E p \in Procs :
    /\ pc[p] = "done"
    /\ argv = <<Other>>
    /\ fs[Other] = File(Junk(1))
    /\ fs[Target] # before[p]

====
